---- MODULE Spec2Model ----
(***************************************************************************)
(* Model of softlife_builder: generate_foregrounds.py (chunk_text,         *)
(* process_files, main) and generate_subliminals.py (write_lines).         *)
(*                                                                         *)
(* A Python str is a sequence of one-character strings.  Two characters    *)
(* that are not ASCII are written by name: "LDQ"/"RDQ" are the smart       *)
(* double quotes U+201C/U+201D, "SUP2" is U+00B2 (superscript two); "BT"   *)
(* is the backtick.                                                        *)
(***************************************************************************)
EXTENDS Integers, Sequences, FiniteSets, TLC

VARIABLES
    pc,             \* position of the running program
    text,           \* chunk_text: the text argument / process_files: text read
    max_length,     \* chunk_text: the max_length argument
    ck,             \* chunk_text: locals [sentences, i, current_chunk, chunks, broke]
    chunks,         \* chunk_text: the returned list
    outputs,        \* write_lines: the outputs argument (a list of lines)
    li,             \* write_lines: number of the line the for loop is at
    out,            \* write_lines: what has been written to the file out
    cfg,            \* main: the keys llm_config.yaml holds
    start_counter,  \* main: --start-counter, [given, value]; given FALSE is None
    chunk_size,     \* main: --chunk-size
    source_dir,     \* the source directory: [exists, entries], entries [name, text]
    replies,        \* what the generation call may return, each [raw, wf, objs]
    counter_file0,  \* counter.txt when the program starts: [exists, content]
    counter_file,   \* counter.txt now
    counter_reads,  \* how often counter.txt has been opened for reading
    counter_writes, \* how often counter.txt has been opened for writing
    files,          \* process_files: the sorted file names still to visit
    text_chunks,    \* process_files: the chunks still to visit, current one first
    content,        \* process_files: the local content
    normalized_outputs, \* process_files: the pieces still to write
    global_counter, \* process_files: the local global_counter
    run_start,      \* global_counter when the loop was entered
    out_dir,        \* the output directory: a set of [name, body]
    emitted,        \* the records written and counted so far: [id, name, title, body,
                    \* at], at = <<files left, chunks left>> when it was written
    failure,        \* "none", or what raised the exception that is propagating
    reply           \* the reply being processed

chunkVars == <<text, max_length, ck, chunks>>
lineVars == <<outputs, li, out>>
envVars == <<cfg, start_counter, chunk_size, source_dir, replies, counter_file0>>
runVars == <<counter_file, counter_reads, counter_writes, files, text_chunks, content,
             normalized_outputs, global_counter, run_start, out_dir, emitted, failure,
             reply>>
vars == <<pc, chunkVars, lineVars, envVars, runVars>>

(***************************************************************************)
(* str helpers                                                             *)
(***************************************************************************)
Min(S) == CHOOSE x \in S : \A y \in S : x <= y
Max(S) == CHOOSE x \in S : \A y \in S : x >= y

\* str.isdigit for one character: the decimal digits, and digits such as the
\* superscript two that int() does not take
IsDigit(c) == c \in {"0", "1", "2", "3", "4", "5", "6", "7", "8", "9", "SUP2"}

\* str.isspace for the characters of the model
IsSpace(c) == c \in {" ", "\n", "\t", "\r"}

RECURSIVE LStrip(_)
LStrip(s) == IF s # <<>> /\ IsSpace(Head(s)) THEN LStrip(Tail(s)) ELSE s

RECURSIVE RStrip(_)
RStrip(s) ==
    IF s # <<>> /\ IsSpace(s[Len(s)]) THEN RStrip(SubSeq(s, 1, Len(s) - 1)) ELSE s

\* str.strip()
Strip(s) == LStrip(RStrip(s))

\* str.replace(c, d) for single characters c and d
Replace(s, c, d) == [j \in 1..Len(s) |-> IF s[j] = c THEN d ELSE s[j]]

\* str.find(sub, start), 1-based; 0 stands for Python's -1
FindFrom(s, sub, start) ==
    LET H == {j \in start..(Len(s) - Len(sub) + 1) : SubSeq(s, j, j + Len(sub) - 1) = sub}
    IN  IF H = {} THEN 0 ELSE Min(H)

Find(s, sub) == FindFrom(s, sub, 1)

\* str.rfind(sub), 1-based; 0 stands for Python's -1
RFind(s, sub) ==
    LET H == {j \in 1..(Len(s) - Len(sub) + 1) : SubSeq(s, j, j + Len(sub) - 1) = sub}
    IN  IF H = {} THEN 0 ELSE Max(H)

StartsWith(s, p) == Len(s) >= Len(p) /\ SubSeq(s, 1, Len(p)) = p
EndsWith(s, p) == Len(s) >= Len(p) /\ SubSeq(s, Len(s) - Len(p) + 1, Len(s)) = p

\* str.split(sep) from position start on: non-overlapping, left to right
RECURSIVE SplitFrom(_, _, _)
SplitFrom(s, sep, start) ==
    LET j == FindFrom(s, sep, start)
    IN  IF j = 0 THEN <<SubSeq(s, start, Len(s))>>
        ELSE <<SubSeq(s, start, j - 1)>> \o SplitFrom(s, sep, j + Len(sep))

Split(s, sep) == SplitFrom(s, sep, 1)

\* list.index(x): the FIRST position holding x
Index(l, x) == Min({j \in 1..Len(l) : l[j] = x})

\* "".join(l)
RECURSIVE Concat(_)
Concat(l) == IF l = <<>> THEN <<>> ELSE Head(l) \o Concat(Tail(l))

\* sep.join(l)
RECURSIVE Join(_, _)
Join(l, sep) ==
    IF l = <<>> THEN <<>>
    ELSE IF Len(l) = 1 THEN Head(l)
    ELSE Head(l) \o sep \o Join(Tail(l), sep)

\* n copies of character c
Rep(c, n) == [j \in 1..n |-> c]

\* all sequences over S of length lo..hi
SeqsOf(S, lo, hi) == UNION {[1..n -> S] : n \in lo..hi}

(***************************************************************************)
(* chunk_text                                                              *)
(***************************************************************************)
DotSpace == <<".", " ">>

\* line 32: text.replace("\n", " ").split(". ")
Sentences(t) == Split(Replace(t, "\n", " "), DotSpace)

\* lines 44-47: the look-ahead text, taken from the first occurrence of sentence
RemainingText(sentences, sentence) ==
    LET remaining_sentences == SubSeq(sentences, Index(sentences, sentence) + 1, Len(sentences))
    IN  sentence \o DotSpace
          \o Concat([j \in 1..Len(remaining_sentences) |-> remaining_sentences[j] \o DotSpace])

\* line 51: len(remaining_text) < max_length * 0.2.  The float product is
\* exact enough for every max_length used here that this equals 5*n < max.
BelowFifth(n, max) == 5 * n < max

\* line 36
Fits(current_chunk, sentence, max) == Len(current_chunk) + Len(sentence) < max

\* lines 34-63: one iteration of the for loop, on sentence number L.i
LoopBody(sentences, max, L) ==
    LET sentence == sentences[L.i]
        remaining_text == RemainingText(sentences, sentence)
    IN  IF Fits(L.current_chunk, sentence, max)
        THEN [L EXCEPT !.current_chunk = @ \o sentence \o DotSpace, !.i = @ + 1]
        ELSE IF L.current_chunk # <<>>
        THEN IF BelowFifth(Len(remaining_text), max)
             THEN [L EXCEPT !.chunks = Append(@, Strip(L.current_chunk \o remaining_text)),
                            !.current_chunk = <<>>,
                            !.broke = TRUE]
             ELSE [L EXCEPT !.chunks = Append(@, Strip(L.current_chunk)),
                            !.current_chunk = sentence \o DotSpace,
                            !.i = @ + 1]
        ELSE [L EXCEPT !.current_chunk = sentence \o DotSpace, !.i = @ + 1]

\* lines 29-30: the locals before the loop
LoopStart == [i |-> 1, current_chunk |-> <<>>, chunks |-> <<>>, broke |-> FALSE]

LoopOver(sentences, L) == L.broke \/ L.i > Len(sentences)

\* lines 65-69
FinalChunks(L) ==
    IF L.current_chunk # <<>> THEN Append(L.chunks, Strip(L.current_chunk)) ELSE L.chunks

RECURSIVE RunLoop(_, _, _)
RunLoop(sentences, max, L) ==
    IF LoopOver(sentences, L) THEN L ELSE RunLoop(sentences, max, LoopBody(sentences, max, L))

\* lines 10-69, as one call
chunk_text(t, max) ==
    IF Len(t) <= max THEN <<t>>
    ELSE FinalChunks(RunLoop(Sentences(t), max, LoopStart))

(***************************************************************************)
(* chunk_text run step by step                                             *)
(***************************************************************************)
MaxSentences == 3

A12 == Rep("a", 12)
A18 == Rep("a", 18)

SentencePool == {<<>>, <<"b">>, <<"c">>, <<"b", ".", "\n", "c">>, A12, A18}

ChunkLengths == {16, 21}

ChunkTexts == {Join(l, DotSpace) : l \in SeqsOf(SentencePool, 1, MaxSentences)}

\* process_files is not running
NoRun ==
    /\ cfg = {} /\ start_counter = [given |-> FALSE, value |-> 0] /\ chunk_size = 0
    /\ source_dir = [exists |-> FALSE, entries |-> {}] /\ replies = {}
    /\ counter_file0 = [exists |-> FALSE, content |-> <<>>]
    /\ counter_file = [exists |-> FALSE, content |-> <<>>]
    /\ counter_reads = 0 /\ counter_writes = 0
    /\ files = <<>> /\ text_chunks = <<>> /\ content = <<>>
    /\ normalized_outputs = <<>> /\ global_counter = 0 /\ run_start = 0
    /\ out_dir = {} /\ emitted = <<>> /\ failure = "none"
    /\ reply = [raw |-> <<>>, wf |-> FALSE, objs |-> <<>>]

NoLoop == [i |-> 0, current_chunk |-> <<>>, chunks |-> <<>>, broke |-> FALSE,
           sentences |-> <<>>]

InitChunk ==
    /\ pc = "chunk_call"
    /\ text \in ChunkTexts
    /\ max_length \in ChunkLengths
    /\ ck = NoLoop
    /\ chunks = <<>>
    /\ outputs = <<>> /\ li = 0 /\ out = <<>>
    /\ NoRun

\* lines 26-27
ChunkShort ==
    /\ pc = "chunk_call"
    /\ Len(text) <= max_length
    /\ chunks' = <<text>>
    /\ pc' = "chunk_done"
    /\ UNCHANGED <<text, max_length, ck>>
    /\ UNCHANGED <<lineVars, envVars, runVars>>

\* lines 29-32
ChunkSplit ==
    /\ pc = "chunk_call"
    /\ Len(text) > max_length
    /\ ck' = [i |-> 1, current_chunk |-> <<>>, chunks |-> <<>>, broke |-> FALSE,
              sentences |-> Sentences(text)]
    /\ pc' = "chunk_loop"
    /\ UNCHANGED <<text, max_length, chunks>>
    /\ UNCHANGED <<lineVars, envVars, runVars>>

\* lines 34-63
ChunkIterate ==
    /\ pc = "chunk_loop"
    /\ ~LoopOver(ck.sentences, ck)
    /\ ck' = LoopBody(ck.sentences, max_length, ck)
    /\ UNCHANGED <<pc, text, max_length, chunks>>
    /\ UNCHANGED <<lineVars, envVars, runVars>>

\* lines 65-69
ChunkReturn ==
    /\ pc = "chunk_loop"
    /\ LoopOver(ck.sentences, ck)
    /\ chunks' = FinalChunks(ck)
    /\ pc' = "chunk_done"
    /\ UNCHANGED <<text, max_length, ck>>
    /\ UNCHANGED <<lineVars, envVars, runVars>>

NextChunk == ChunkShort \/ ChunkSplit \/ ChunkIterate \/ ChunkReturn

SpecChunk == InitChunk /\ [][NextChunk]_vars

(***************************************************************************)
(* process_files: the reply of the model, lines 155-218                    *)
(***************************************************************************)
Quote == "\""
Backslash == "\\"
Backtick == "BT"

\* str.replace(sub, d) for a str sub
RECURSIVE ReplaceSeq(_, _, _)
ReplaceSeq(s, sub, d) ==
    LET j == Find(s, sub)
    IN  IF j = 0 THEN s
        ELSE SubSeq(s, 1, j - 1) \o d \o ReplaceSeq(SubSeq(s, j + Len(sub), Len(s)), sub, d)

\* str.count(c) for a single character
Count(s, c) == Cardinality({j \in 1..Len(s) : s[j] = c})

\* the first and the last position of the maximal run of whitespace around j
RunStart(s, j) == 1 + Max({k \in 0..(j - 1) : k = 0 \/ ~IsSpace(s[k])})
RunEnd(s, j) == Min({k \in (j + 1)..(Len(s) + 1) : k = Len(s) + 1 \/ ~IsSpace(s[k])}) - 1

\* line 159: re.sub replaces each maximal whitespace run that holds a line
\* feed by one space ("GONE" marks the other characters of such a run)
Collapse(s) ==
    LET marked == [j \in 1..Len(s) |->
                     IF IsSpace(s[j]) /\ \E k \in RunStart(s, j)..RunEnd(s, j) : s[k] = "\n"
                     THEN (IF j = RunStart(s, j) THEN " " ELSE "GONE")
                     ELSE s[j]]
    IN  SelectSeq(marked, LAMBDA c : c # "GONE")

\* lines 158-159: step 1
NormalizeQuotes(c) == Collapse(Replace(Replace(c, "LDQ", Quote), "RDQ", Quote))

\* str.splitlines(): breaks at "\n", "\r" and "\r\n"; no empty last line
RECURSIVE SplitLines(_)
SplitLines(s) ==
    LET H == {j \in 1..Len(s) : s[j] \in {"\n", "\r"}}
    IN  IF s = <<>> THEN <<>>
        ELSE IF H = {} THEN <<s>>
        ELSE LET j == Min(H)
                 k == IF s[j] = "\r" /\ j < Len(s) /\ s[j + 1] = "\n" THEN j + 1 ELSE j
             IN  <<SubSeq(s, 1, j - 1)>> \o SplitLines(SubSeq(s, k + 1, Len(s)))

Fence == <<Backtick, Backtick, Backtick>>

\* lines 162-168: step 2
StripFences(c) ==
    IF ~StartsWith(c, Fence) THEN c
    ELSE LET lines0 == SplitLines(c)
             lines1 == IF lines0 # <<>> /\ StartsWith(lines0[1], Fence)
                       THEN Tail(lines0) ELSE lines0
             lines2 == IF lines1 # <<>> /\ StartsWith(lines1[Len(lines1)], Fence)
                       THEN SubSeq(lines1, 1, Len(lines1) - 1) ELSE lines1
         IN  Strip(Join(lines2, <<"\n">>))

\* lines 171-173: step 3, re.fullmatch: a quote, whitespace, an object or array
\* text without line feed, whitespace, a quote
UnwrapString(c) ==
    LET g == IF Len(c) >= 2 THEN Strip(SubSeq(c, 2, Len(c) - 1)) ELSE <<>>
        m == /\ Len(c) >= 2
             /\ c[1] \in {Quote, "'"}
             /\ c[Len(c)] \in {Quote, "'"}
             /\ Len(g) >= 2
             /\ \/ g[1] = "{" /\ g[Len(g)] = "}"
                \/ g[1] = "[" /\ g[Len(g)] = "]"
             /\ \A j \in 1..Len(g) : g[j] # "\n"
    IN  IF m THEN Strip(ReplaceSeq(g, <<Backslash, Quote>>, <<Quote>>)) ELSE c

\* lines 177-184: step 4, the text before the first "{" or "[" is cut
TrimLeading(c) ==
    LET brace_index == Find(c, <<"{">>)
        bracket_index == Find(c, <<"[">>)
        candidates == {brace_index, bracket_index} \ {0}
    IN  IF candidates # {} /\ Min(candidates) > 1
        THEN LStrip(SubSeq(c, Min(candidates), Len(c)))
        ELSE c

\* lines 186-191: step 4, the text after the last "}" or "]" is cut
TrimTrailing(c) ==
    LET last_bracket == Max({RFind(c, <<"}">>), RFind(c, <<"]">>)})
    IN  IF last_bracket # 0 /\ last_bracket < Len(c)
        THEN RStrip(SubSeq(c, 1, last_bracket))
        ELSE c

\* lines 194-195: step 5
WrapSingle(c) ==
    IF StartsWith(c, <<"{">>) /\ EndsWith(c, <<"}">>) THEN <<"[">> \o c \o <<"]">> ELSE c

\* re.findall(open [^open close]{least,} close, c) from position i on: the
\* non-overlapping matches, leftmost first
RECURSIVE FindAllFrom(_, _, _, _, _)
FindAllFrom(c, open, close, least, from) ==
    LET i == FindFrom(c, <<open>>, from)
        H == {j \in (i + 1)..Len(c) : c[j] \in {open, close}}
        j == IF H = {} THEN 0 ELSE Min(H)
    IN  IF i = 0 THEN <<>>
        ELSE IF j # 0 /\ c[j] = close /\ j - i - 1 >= least
        THEN <<SubSeq(c, i, j)>> \o FindAllFrom(c, open, close, least, j + 1)
        ELSE FindAllFrom(c, open, close, least, i + 1)

\* line 202: re.findall of a bracket pair with no bracket inside
ArrayMatches(c) == FindAllFrom(c, "[", "]", 0, 1)

\* line 216: re.findall of a brace pair with at least one character and no
\* brace inside
ObjectMatches(c) == FindAllFrom(c, "{", "}", 1, 1)

(***************************************************************************)
(* json.loads and json.dumps on the characters of the model.  A value is   *)
(* [k |-> "str" | "num", v |-> characters], [k |-> "list", v |-> values]   *)
(* or [k |-> "dict", v |-> members], a member being [key, val].            *)
(***************************************************************************)
Failed == [ok |-> FALSE, val |-> <<>>, next |-> 0]
Parsed(v, n) == [ok |-> TRUE, val |-> v, next |-> n]

IsJsonSpace(c) == c \in {" ", "\t", "\n", "\r"}

RECURSIVE SkipWS(_, _)
SkipWS(s, i) == IF i <= Len(s) /\ IsJsonSpace(s[i]) THEN SkipWS(s, i + 1) ELSE i

At(s, i) == IF i >= 1 /\ i <= Len(s) THEN s[i] ELSE "EOF"

\* the character an escape stands for; "BSP" is the backspace U+0008
Unescape(c) ==
    CASE c = Quote -> Quote
      [] c = Backslash -> Backslash
      [] c = "/" -> "/"
      [] c = "n" -> "\n"
      [] c = "r" -> "\r"
      [] c = "t" -> "\t"
      [] c = "b" -> "BSP"
      [] OTHER -> "EOF"

\* the string whose opening quote is just before position i
RECURSIVE ParseChars(_, _, _)
ParseChars(s, i, acc) ==
    LET c == At(s, i)
    IN  IF c = "EOF" \/ c \in {"\n", "\r", "\t", "BSP"} THEN Failed
        ELSE IF c = Quote THEN Parsed([k |-> "str", v |-> acc], i + 1)
        ELSE IF c = Backslash
        THEN IF Unescape(At(s, i + 1)) = "EOF" THEN Failed
             ELSE ParseChars(s, i + 2, Append(acc, Unescape(At(s, i + 1))))
        ELSE ParseChars(s, i + 1, Append(acc, c))

Digit == {"0", "1", "2", "3", "4", "5", "6", "7", "8", "9"}

RECURSIVE DigitsEnd(_, _)
DigitsEnd(s, i) == IF At(s, i + 1) \in Digit THEN DigitsEnd(s, i + 1) ELSE i

\* an integer: "0", or digits that do not start with "0"
ParseNumber(s, i) ==
    LET e == IF s[i] = "0" THEN i ELSE DigitsEnd(s, i)
    IN  Parsed([k |-> "num", v |-> SubSeq(s, i, e)], e + 1)

\* dict[key] = val: a key already there keeps its place and takes the new value
Put(members, key, val) ==
    IF \E j \in 1..Len(members) : members[j].key = key
    THEN [j \in 1..Len(members) |->
            IF members[j].key = key THEN [key |-> key, val |-> val] ELSE members[j]]
    ELSE Append(members, [key |-> key, val |-> val])

RECURSIVE ParseValue(_, _)
RECURSIVE ParseElements(_, _, _)
RECURSIVE ParseMembers(_, _, _)

ParseValue(s, i) ==
    LET j == SkipWS(s, i)
        c == At(s, j)
    IN  IF c = Quote THEN ParseChars(s, j + 1, <<>>)
        ELSE IF c \in Digit THEN ParseNumber(s, j)
        ELSE IF c = "["
        THEN IF At(s, SkipWS(s, j + 1)) = "]"
             THEN Parsed([k |-> "list", v |-> <<>>], SkipWS(s, j + 1) + 1)
             ELSE ParseElements(s, j + 1, <<>>)
        ELSE IF c = "{"
        THEN IF At(s, SkipWS(s, j + 1)) = "}"
             THEN Parsed([k |-> "dict", v |-> <<>>], SkipWS(s, j + 1) + 1)
             ELSE ParseMembers(s, j + 1, <<>>)
        ELSE Failed

ParseElements(s, i, acc) ==
    LET r == ParseValue(s, i)
        j == SkipWS(s, r.next)
    IN  IF ~r.ok THEN Failed
        ELSE IF At(s, j) = "," THEN ParseElements(s, j + 1, Append(acc, r.val))
        ELSE IF At(s, j) = "]" THEN Parsed([k |-> "list", v |-> Append(acc, r.val)], j + 1)
        ELSE Failed

ParseMembers(s, i, acc) ==
    LET j == SkipWS(s, i)
        key == IF At(s, j) = Quote THEN ParseChars(s, j + 1, <<>>) ELSE Failed
        c == SkipWS(s, key.next)
        r == IF key.ok /\ At(s, c) = ":" THEN ParseValue(s, c + 1) ELSE Failed
        m == SkipWS(s, r.next)
    IN  IF ~r.ok THEN Failed
        ELSE IF At(s, m) = "," THEN ParseMembers(s, m + 1, Put(acc, key.val.v, r.val))
        ELSE IF At(s, m) = "}"
        THEN Parsed([k |-> "dict", v |-> Put(acc, key.val.v, r.val)], m + 1)
        ELSE Failed

\* json.loads(s): [ok, val]; ok is FALSE where json.loads raises
Loads(s) ==
    LET r == ParseValue(s, 1)
    IN  IF r.ok /\ SkipWS(s, r.next) > Len(s) THEN r ELSE Failed

\* json.dumps of a str
RECURSIVE Escape(_)
Escape(s) ==
    IF s = <<>> THEN <<>>
    ELSE (CASE Head(s) = Quote -> <<Backslash, Quote>>
            [] Head(s) = Backslash -> <<Backslash, Backslash>>
            [] Head(s) = "\n" -> <<Backslash, "n">>
            [] Head(s) = "\r" -> <<Backslash, "r">>
            [] Head(s) = "\t" -> <<Backslash, "t">>
            [] Head(s) = "BSP" -> <<Backslash, "b">>
            [] OTHER -> <<Head(s)>>) \o Escape(Tail(s))

\* json.dumps(v), with the default separators ", " and ": "
RECURSIVE Dumps(_)
Dumps(v) ==
    CASE v.k = "str" -> <<Quote>> \o Escape(v.v) \o <<Quote>>
      [] v.k = "num" -> v.v
      [] v.k = "list" ->
            <<"[">> \o Join([j \in 1..Len(v.v) |-> Dumps(v.v[j])], <<",", " ">>) \o <<"]">>
      [] v.k = "dict" ->
            <<"{">>
              \o Join([j \in 1..Len(v.v) |->
                         <<Quote>> \o Escape(v.v[j].key) \o <<Quote, ":", " ">>
                           \o Dumps(v.v[j].val)],
                      <<",", " ">>)
              \o <<"}">>

(***************************************************************************)
(* process_files: lines 201-255                                            *)
(***************************************************************************)
\* lines 204-211: the elements of every match that parses to a list
RECURSIVE CombinedObjects(_)
CombinedObjects(array_matches) ==
    IF array_matches = <<>> THEN <<>>
    ELSE LET parsed == Loads(Head(array_matches))
         IN  (IF parsed.ok /\ parsed.val.k = "list" THEN parsed.val.v ELSE <<>>)
               \o CombinedObjects(Tail(array_matches))

\* lines 201-218: steps 6 and 7
MergeArrays(c) ==
    LET array_matches == ArrayMatches(c)
        objs == ObjectMatches(c)
    IN  IF Len(array_matches) > 1
        THEN Dumps([k |-> "list", v |-> CombinedObjects(array_matches)])
        ELSE IF Count(c, "{") > 1 /\ ~StartsWith(Strip(c), <<"[">>)
        THEN IF objs # <<>> THEN <<"[">> \o Join(objs, <<",">>) \o <<"]">> ELSE c
        ELSE c

\* lines 155-218: the reply as it reaches the final parse
Cleaned(raw) ==
    MergeArrays(WrapSingle(TrimTrailing(TrimLeading(
        UnwrapString(StripFences(NormalizeQuotes(Strip(raw))))))))

\* lines 239-251: _collect_dicts
RECURSIVE CollectDicts(_)
CollectDicts(item) ==
    IF item.k = "dict" THEN <<item>>
    ELSE IF item.k = "list"
    THEN Concat([j \in 1..Len(item.v) |-> CollectDicts(item.v[j])])
    ELSE <<>>

\* lines 229-231 and 251: the dicts of a parsed reply
NormalizedOutputs(val) ==
    CollectDicts(IF val.k = "list" THEN val ELSE [k |-> "list", v |-> <<val>>])

(***************************************************************************)
(* process_files: the counter and the output files                         *)
(***************************************************************************)
DigitChars == <<"0", "1", "2", "3", "4", "5", "6", "7", "8", "9">>

\* str(n) for an int n >= 0
RECURSIVE Digits(_)
Digits(n) ==
    IF n < 10 THEN <<DigitChars[n + 1]>>
    ELSE Digits(n \div 10) \o <<DigitChars[(n % 10) + 1]>>

\* line 273: the counter formatted with 03d
Pad3(n) == IF Len(Digits(n)) >= 3 THEN Digits(n) ELSE Rep("0", 3 - Len(Digits(n))) \o Digits(n)

\* line 80: content.isdigit()
IsDigitStr(s) == s # <<>> /\ \A j \in 1..Len(s) : IsDigit(s[j])

\* line 81: int(content) raises ValueError on a digit that is not decimal
IntRaises(s) == \E j \in 1..Len(s) : s[j] \notin Digit

\* line 81: int(content) for decimal digits
RECURSIVE IntOf(_)
IntOf(s) ==
    IF s = <<>> THEN 0
    ELSE 10 * IntOf(SubSeq(s, 1, Len(s) - 1))
           + (CHOOSE d \in 0..9 : DigitChars[d + 1] = s[Len(s)])

\* lines 74-81: global_counter before the loop
StartingCounter(start, file) ==
    IF start.given THEN start.value
    ELSE IF file.exists /\ IsDigitStr(Strip(file.content)) THEN IntOf(Strip(file.content))
    ELSE 1

\* lines 77-81 raise: the file is read and int() rejects its digits
StartingCounterRaises(start, file) ==
    ~start.given /\ file.exists /\ IsDigitStr(Strip(file.content))
      /\ IntRaises(Strip(file.content))

\* line 77: the counter file is opened for reading
CounterFileRead(start, file) == ~start.given /\ file.exists

KeyTitle == <<"t", "i", "t", "l", "e">>
KeyBody == <<"b", "o", "d", "y">>

\* dict.get(key, default) on the members of a dict
Get(members, key, default) ==
    IF \E j \in 1..Len(members) : members[j].key = key
    THEN members[CHOOSE j \in 1..Len(members) : members[j].key = key].val
    ELSE default

\* str(v) for a str or an int
PyStr(v) == CASE v.k = "str" -> v.v [] v.k = "num" -> v.v

\* line 258: the text piece_N
PieceName(counter) == <<"p", "i", "e", "c", "e", "_">> \o Digits(counter)

\* line 258
TitleOf(piece, counter) ==
    LET t == Strip(PyStr(Get(piece.v, KeyTitle, [k |-> "str", v |-> PieceName(counter)])))
    IN  IF t = <<>> THEN PieceName(counter) ELSE t

\* line 259
BodyOf(piece) == Strip(PyStr(Get(piece.v, KeyBody, [k |-> "str", v |-> <<>>])))

\* str.split(): the words between runs of whitespace
RECURSIVE SplitWords(_)
SplitWords(s) ==
    LET t == LStrip(s)
        H == {j \in 1..Len(t) : IsSpace(t[j])}
    IN  IF t = <<>> THEN <<>>
        ELSE IF H = {} THEN <<t>>
        ELSE <<SubSeq(t, 1, Min(H) - 1)>> \o SplitWords(SubSeq(t, Min(H), Len(t)))

\* line 265
InvalidChars == {"/", Backslash, ":", "*", "?", Quote, "<", ">", "|"}

\* line 270
MaxSafeTitle == 150

\* lines 262-271
SafeTitle(title) ==
    LET joined == Join(SplitWords(title), <<"_">>)
        safe == [j \in 1..Len(joined) |-> IF joined[j] \in InvalidChars THEN "_" ELSE joined[j]]
    IN  IF Len(safe) > MaxSafeTitle THEN SubSeq(safe, 1, MaxSafeTitle) ELSE safe

DotTxt == <<".", "t", "x", "t">>

\* line 273
FileName(counter, title) == Pad3(counter) \o <<"_">> \o SafeTitle(title) \o DotTxt

\* line 281 without the increment
NextCounterStuck(counter) == counter

\* line 281
NextCounter(counter) == counter + 1

\* line 286: what the teardown writes
CounterText(counter) == Digits(counter)

\* the order of the characters file names are made of
CharOrder == <<".", "a", "b", "c", "d", "m", "n", "t", "x">>
Ord(c) == CHOOSE j \in 1..Len(CharOrder) : CharOrder[j] = c

\* a < b for two str
RECURSIVE StrLess(_, _)
StrLess(a, b) ==
    IF b = <<>> THEN FALSE
    ELSE IF a = <<>> THEN TRUE
    ELSE IF Head(a) # Head(b) THEN Ord(Head(a)) < Ord(Head(b))
    ELSE StrLess(Tail(a), Tail(b))

\* line 136: sorted(names)
RECURSIVE Sorted(_)
Sorted(names) ==
    IF names = {} THEN <<>>
    ELSE LET least == CHOOSE a \in names : \A b \in names \ {a} : StrLess(a, b)
         IN  <<least>> \o Sorted(names \ {least})

\* line 141-142: the text of the file called name
TextOf(name) == (CHOOSE e \in source_dir.entries : e.name = name).text

(***************************************************************************)
(* main and process_files, step by step                                    *)
(***************************************************************************)
counterVars == <<counter_file, counter_reads, counter_writes>>
loopVars == <<files, text_chunks>>
replyVars == <<content, normalized_outputs, reply>>
outVars == <<global_counter, out_dir, emitted>>
idleVars == <<chunkVars, lineVars, envVars>>

\* a JSON text for a str
JStr(chars) == <<Quote>> \o Escape(chars) \o <<Quote>>

\* a JSON object with a title and a body
ObjText(o) ==
    <<"{">> \o JStr(KeyTitle) \o <<":">> \o JStr(o.title) \o <<",">>
      \o JStr(KeyBody) \o <<":">> \o JStr(o.body) \o <<"}">>

\* one object alone, or the objects in one array
ReplyText(objs, asArray) ==
    IF asArray THEN <<"[">> \o Join([j \in 1..Len(objs) |-> ObjText(objs[j])], <<",">>) \o <<"]">>
    ELSE ObjText(objs[1])

\* a well-formed reply: commentary, the JSON text, commentary; objs are the
\* records it stands for, title and body trimmed
WellFormed(objs, asArray, pre, post) ==
    [raw |-> pre \o ReplyText(objs, asArray) \o post,
     wf |-> TRUE,
     objs |-> [j \in 1..Len(objs) |->
                 [title |-> Strip(objs[j].title), body |-> Strip(objs[j].body)]]]

\* any other reply
Raw(chars) == [raw |-> chars, wf |-> FALSE, objs |-> <<>>]

ObjAB == [title |-> <<"A", " ", "B">>, body |-> <<"B">>]
ObjCD == [title |-> <<"C">>, body |-> <<" ", "D", " ">>]
ObjRefs == [title |-> <<"A">>, body |-> <<"[", "1", "]", " ", "[", "2", "]">>]

PipelineReplies ==
    { WellFormed(<<ObjAB>>, FALSE, <<>>, <<>>),
      WellFormed(<<ObjAB, ObjCD>>, TRUE, <<"H", ":", " ">>, <<" ", "H", "!">>),
      WellFormed(<<ObjRefs>>, FALSE, <<>>, <<>>),
      Raw(<<"[", "{">> \o JStr(KeyBody) \o <<":", "7", "}", "]">>),
      Raw(<<"A", "B">>),
      Raw(<<" ">>),
      Raw(<<"[", "1", "]">>) }

FullConfig == {"model", "base_url", "api_key"}

Configs == {FullConfig} \cup {FullConfig \ {key} : key \in FullConfig}

NotGiven == [given |-> FALSE, value |-> 0]
Given(n) == [given |-> TRUE, value |-> n]

Absent == [exists |-> FALSE, content |-> <<>>]
Holding(chars) == [exists |-> TRUE, content |-> chars]

StartCounters == {NotGiven, Given(5)}

CounterFiles ==
    { Absent, Holding(<<"4", "2">>), Holding(<<" ", "9", "9", "8", "\n">>), Holding(<<"x">>),
      Holding(<<>>), Holding(<<"SUP2">>) }

MaxFiles == 2

\* a.txt, b.txt, ... and a file that is no .txt
NameOf(j) == <<CharOrder[j + 1]>> \o DotTxt
NameA == NameOf(1)
NameN == <<"a", ".", "m", "d">>

\* one chunk, and two chunks
ShortText == <<"b", ".", " ", "c">>
LongText == A12 \o DotSpace \o A18

SourceFile(j) == [name |-> NameOf(j), text |-> IF j = 2 THEN LongText ELSE ShortText]

SourceDirs ==
    { [exists |-> FALSE, entries |-> {}],
      [exists |-> TRUE, entries |-> {}],
      [exists |-> TRUE, entries |-> {SourceFile(1)}],
      [exists |-> TRUE,
       entries |-> {SourceFile(j) : j \in 1..MaxFiles}
                     \cup {[name |-> NameN, text |-> ShortText]}] }

\* the program is started
Init ==
    /\ pc = "main"
    /\ cfg \in Configs
    /\ start_counter \in StartCounters
    /\ counter_file0 \in CounterFiles
    /\ start_counter.given => counter_file0 \in {Absent, Holding(<<"4", "2">>)}
    /\ chunk_size = 16
    /\ source_dir \in SourceDirs
    /\ replies = PipelineReplies
    /\ counter_file = counter_file0
    /\ counter_reads = 0 /\ counter_writes = 0
    /\ files = <<>> /\ text_chunks = <<>> /\ content = <<>>
    /\ normalized_outputs = <<>> /\ global_counter = 0 /\ run_start = 0
    /\ out_dir = {} /\ emitted = <<>> /\ failure = "none"
    /\ reply = Raw(<<>>)
    /\ text = <<>> /\ max_length = 0 /\ ck = NoLoop /\ chunks = <<>>
    /\ outputs = <<>> /\ li = 0 /\ out = <<>>

\* main, lines 317-320: a key of the configuration is missing, KeyError
ConfigError ==
    /\ pc = "main"
    /\ ~({"base_url", "api_key"} \subseteq cfg)
    /\ pc' = "raised"
    /\ failure' = "config"
    /\ UNCHANGED <<counterVars, loopVars, replyVars, outVars, run_start, idleVars>>

\* main, lines 314-333: the client is built and process_files is called
CallProcessFiles ==
    /\ pc = "main"
    /\ {"base_url", "api_key"} \subseteq cfg
    /\ pc' = "start_counter"
    /\ UNCHANGED <<counterVars, loopVars, replyVars, outVars, run_start, failure, idleVars>>

\* lines 74-81
ReadCounter ==
    /\ pc = "start_counter"
    /\ ~StartingCounterRaises(start_counter, counter_file)
    /\ global_counter' = StartingCounter(start_counter, counter_file)
    /\ run_start' = global_counter'
    /\ counter_reads' = counter_reads + (IF CounterFileRead(start_counter, counter_file) THEN 1 ELSE 0)
    /\ pc' = "listdir"
    /\ UNCHANGED <<counter_file, counter_writes, loopVars, replyVars, out_dir, emitted,
                   failure, idleVars>>

\* lines 77-81: int(content) raises ValueError, before the try statement
ReadCounterRaises ==
    /\ pc = "start_counter"
    /\ StartingCounterRaises(start_counter, counter_file)
    /\ counter_reads' = counter_reads + 1
    /\ pc' = "raised"
    /\ failure' = "counter_value"
    /\ UNCHANGED <<counter_file, counter_writes, loopVars, replyVars, outVars, run_start,
                   idleVars>>

\* line 136: sorted(os.listdir(source_dir))
ListDir ==
    /\ pc = "listdir"
    /\ source_dir.exists
    /\ files' = Sorted({e.name : e \in source_dir.entries})
    /\ pc' = "next_file"
    /\ UNCHANGED <<counterVars, text_chunks, replyVars, outVars, run_start, failure, idleVars>>

\* line 136: os.listdir raises, the directory is missing
ListDirRaises ==
    /\ pc = "listdir"
    /\ ~source_dir.exists
    /\ pc' = "finally"
    /\ failure' = "listdir"
    /\ UNCHANGED <<counterVars, loopVars, replyVars, outVars, run_start, idleVars>>

\* lines 136-138: a name that does not end in .txt is passed over
SkipFile ==
    /\ pc = "next_file"
    /\ files # <<>>
    /\ ~EndsWith(Head(files), DotTxt)
    /\ files' = Tail(files)
    /\ UNCHANGED <<pc, counterVars, text_chunks, replyVars, outVars, run_start, failure,
                   idleVars>>

\* lines 140-144: the file is read and cut into chunks
ReadFile ==
    /\ pc = "next_file"
    /\ files # <<>>
    /\ EndsWith(Head(files), DotTxt)
    /\ text_chunks' = chunk_text(TextOf(Head(files)), chunk_size)
    /\ files' = Tail(files)
    /\ pc' = "next_chunk"
    /\ UNCHANGED <<counterVars, replyVars, outVars, run_start, failure, idleVars>>

\* lines 141-142: open or read raises
ReadFileRaises ==
    /\ pc = "next_file"
    /\ files # <<>>
    /\ EndsWith(Head(files), DotTxt)
    /\ pc' = "finally"
    /\ failure' = "read"
    /\ UNCHANGED <<counterVars, loopVars, replyVars, outVars, run_start, idleVars>>

\* line 136: no file is left, the try block ends
FilesDone ==
    /\ pc = "next_file"
    /\ files = <<>>
    /\ pc' = "finally"
    /\ UNCHANGED <<counterVars, loopVars, replyVars, outVars, run_start, failure, idleVars>>

\* line 145: no chunk is left of this file
ChunksDone ==
    /\ pc = "next_chunk"
    /\ text_chunks = <<>>
    /\ pc' = "next_file"
    /\ UNCHANGED <<counterVars, loopVars, replyVars, outVars, run_start, failure, idleVars>>

\* line 149: cfg["model"] raises KeyError
MissingModel ==
    /\ pc = "next_chunk"
    /\ text_chunks # <<>>
    /\ "model" \notin cfg
    /\ pc' = "finally"
    /\ failure' = "config_model"
    /\ UNCHANGED <<counterVars, loopVars, replyVars, outVars, run_start, idleVars>>

\* lines 148-153: the generation call raises
GenerationFails ==
    /\ pc = "next_chunk"
    /\ text_chunks # <<>>
    /\ "model" \in cfg
    /\ pc' = "finally"
    /\ failure' = "generation"
    /\ UNCHANGED <<counterVars, loopVars, replyVars, outVars, run_start, idleVars>>

\* lines 146-155: the generation call returns a reply
Generate ==
    /\ pc = "next_chunk"
    /\ text_chunks # <<>>
    /\ "model" \in cfg
    /\ \E r \in replies :
          /\ reply' = r
          /\ content' = Strip(r.raw)
    /\ pc' = "normalize"
    /\ UNCHANGED <<counterVars, loopVars, normalized_outputs, outVars, run_start, failure,
                   idleVars>>

\* lines 157-173: steps 1 to 3
Normalize ==
    /\ pc = "normalize"
    /\ content' = UnwrapString(StripFences(NormalizeQuotes(content)))
    /\ pc' = "trim"
    /\ UNCHANGED <<counterVars, loopVars, normalized_outputs, reply, outVars, run_start,
                   failure, idleVars>>

\* lines 175-195: steps 4 and 5
Trim ==
    /\ pc = "trim"
    /\ content' = WrapSingle(TrimTrailing(TrimLeading(content)))
    /\ pc' = "merge"
    /\ UNCHANGED <<counterVars, loopVars, normalized_outputs, reply, outVars, run_start,
                   failure, idleVars>>

\* lines 201-218: steps 6 and 7
Merge ==
    /\ pc = "merge"
    /\ content' = MergeArrays(content)
    /\ pc' = "parse"
    /\ UNCHANGED <<counterVars, loopVars, normalized_outputs, reply, outVars, run_start,
                   failure, idleVars>>

\* lines 221-223: nothing is left of the reply, continue
SkipEmpty ==
    /\ pc = "parse"
    /\ content = <<>>
    /\ text_chunks' = Tail(text_chunks)
    /\ pc' = "next_chunk"
    /\ UNCHANGED <<counterVars, files, replyVars, outVars, run_start, failure, idleVars>>

\* lines 228-236 without the try statement: the error of json.loads propagates
ParseFailsRaises ==
    /\ pc = "parse"
    /\ content # <<>>
    /\ ~Loads(content).ok
    /\ pc' = "finally"
    /\ failure' = "parse"
    /\ UNCHANGED <<counterVars, loopVars, replyVars, outVars, run_start, idleVars>>

\* lines 228-236: json.loads raises, continue
ParseFails ==
    /\ pc = "parse"
    /\ content # <<>>
    /\ ~Loads(content).ok
    /\ text_chunks' = Tail(text_chunks)
    /\ pc' = "next_chunk"
    /\ UNCHANGED <<counterVars, files, replyVars, outVars, run_start, failure, idleVars>>

\* lines 228-251: the reply parses and its dicts are collected
ParseReply ==
    /\ pc = "parse"
    /\ content # <<>>
    /\ Loads(content).ok
    /\ normalized_outputs' = NormalizedOutputs(Loads(content).val)
    /\ pc' = "collected"
    /\ UNCHANGED <<counterVars, loopVars, content, reply, outVars, run_start, failure,
                   idleVars>>

\* lines 253-255: the reply holds no dict, continue
SkipNoObjects ==
    /\ pc = "collected"
    /\ normalized_outputs = <<>>
    /\ text_chunks' = Tail(text_chunks)
    /\ pc' = "next_chunk"
    /\ UNCHANGED <<counterVars, files, replyVars, outVars, run_start, failure, idleVars>>

\* lines 257-281: one piece is written and counted
EmitPiece ==
    /\ pc \in {"collected", "emit"}
    /\ normalized_outputs # <<>>
    /\ LET piece == Head(normalized_outputs)
           title == TitleOf(piece, global_counter)
           body == BodyOf(piece)
           fname == FileName(global_counter, title)
       IN  /\ out_dir' = {f \in out_dir : f.name # fname}
                           \cup {[name |-> fname, body |-> body \o <<"\n">>]}
           /\ emitted' = Append(emitted, [id |-> global_counter, name |-> fname,
                                          title |-> title, body |-> body,
                                          at |-> <<Len(files), Len(text_chunks)>>])
    /\ global_counter' = NextCounter(global_counter)
    /\ normalized_outputs' = Tail(normalized_outputs)
    /\ pc' = "emit"
    /\ UNCHANGED <<counterVars, loopVars, content, reply, run_start, failure, idleVars>>

\* lines 277-280: makedirs, open or write raises; the file may have been created
EmitFails ==
    /\ pc \in {"collected", "emit"}
    /\ normalized_outputs # <<>>
    /\ \E created \in BOOLEAN :
          LET fname == FileName(global_counter,
                                TitleOf(Head(normalized_outputs), global_counter))
          IN  out_dir' = IF created
                         THEN {f \in out_dir : f.name # fname}
                                \cup {[name |-> fname, body |-> <<>>]}
                         ELSE out_dir
    /\ pc' = "finally"
    /\ failure' = "write"
    /\ UNCHANGED <<counterVars, loopVars, replyVars, global_counter, emitted, run_start,
                   idleVars>>

\* line 257: every piece of the reply is written, the next chunk is due
EmitDone ==
    /\ pc = "emit"
    /\ normalized_outputs = <<>>
    /\ text_chunks' = Tail(text_chunks)
    /\ pc' = "next_chunk"
    /\ UNCHANGED <<counterVars, files, replyVars, outVars, run_start, failure, idleVars>>

\* lines 283-286 as if the counter were written after the loop, not in a finally
FinallyOnSuccessOnly ==
    /\ pc = "finally"
    /\ counter_file' = IF failure = "none" THEN Holding(CounterText(global_counter))
                       ELSE counter_file
    /\ counter_writes' = counter_writes + (IF failure = "none" THEN 1 ELSE 0)
    /\ pc' = IF failure = "none" THEN "returned" ELSE "raised"
    /\ UNCHANGED <<counter_reads, loopVars, replyVars, outVars, run_start, failure, idleVars>>

\* lines 283-286: the teardown writes the counter; the exception, if any, goes on
Finally ==
    /\ pc = "finally"
    /\ counter_file' = Holding(CounterText(global_counter))
    /\ counter_writes' = counter_writes + 1
    /\ pc' = IF failure = "none" THEN "returned" ELSE "raised"
    /\ UNCHANGED <<counter_reads, loopVars, replyVars, outVars, run_start, failure, idleVars>>

Next ==
    \/ ConfigError \/ CallProcessFiles \/ ReadCounter \/ ReadCounterRaises
    \/ ListDir \/ ListDirRaises \/ SkipFile \/ ReadFile \/ ReadFileRaises \/ FilesDone
    \/ ChunksDone \/ MissingModel \/ GenerationFails \/ Generate
    \/ Normalize \/ Trim \/ Merge \/ SkipEmpty \/ ParseFails \/ ParseReply
    \/ SkipNoObjects \/ EmitPiece \/ EmitFails \/ EmitDone \/ Finally

Spec == Init /\ [][Next]_vars

(***************************************************************************)
(* The recovery of one reply: process_files at its only chunk, the replies *)
(* drawn from a family of well-formed ones                                 *)
(***************************************************************************)
MaxObjects == 2

TitlePool == {<<"A">>, <<"A", " ", "B">>}

BodyPool ==
    { <<"B">>,
      <<" ", "D", " ">>,
      <<"[", "1", "]", " ", "[", "2", "]">>,
      <<"{", "B">>,
      <<"B", "}">>,
      <<"LDQ", "B", "RDQ">>,
      <<"B", Quote>> }

ObjPool == [title : TitlePool, body : BodyPool]

\* commentary without brace or bracket, before and after the JSON text
Commentary ==
    { <<<<>>, <<>>>>,
      <<<<"H", ":", " ">>, <<" ", "H", "!">>>>,
      <<Fence \o <<"\n">>, <<"\n">> \o Fence>> }

WellFormedReplies ==
    {WellFormed(<<o>>, FALSE, c[1], c[2]) : o \in ObjPool, c \in Commentary}
      \cup {WellFormed(l, TRUE, c[1], c[2]) :
              l \in SeqsOf(ObjPool, 1, MaxObjects), c \in Commentary}

InitRecover ==
    /\ pc = "next_chunk"
    /\ cfg = FullConfig
    /\ start_counter = NotGiven
    /\ counter_file0 = Absent
    /\ chunk_size = 16
    /\ source_dir = [exists |-> TRUE, entries |-> {SourceFile(1)}]
    /\ replies = WellFormedReplies \cup {Raw(<<"[", "1", "]">>)}
    /\ counter_file = Absent
    /\ counter_reads = 0 /\ counter_writes = 0
    /\ files = <<>>
    /\ text_chunks = chunk_text(ShortText, chunk_size)
    /\ content = <<>>
    /\ normalized_outputs = <<>>
    /\ global_counter = 1 /\ run_start = 1
    /\ out_dir = {} /\ emitted = <<>> /\ failure = "none"
    /\ reply = Raw(<<>>)
    /\ text = <<>> /\ max_length = 0 /\ ck = NoLoop /\ chunks = <<>>
    /\ outputs = <<>> /\ li = 0 /\ out = <<>>

NextRecover ==
    \/ Generate \/ Normalize \/ Trim \/ Merge \/ SkipEmpty \/ ParseFails \/ ParseReply
    \/ SkipNoObjects \/ EmitPiece \/ EmitDone

SpecRecover == InitRecover /\ [][NextRecover]_vars

(***************************************************************************)
(* generate_subliminals.write_lines                                        *)
(***************************************************************************)
\* lines 56-57, the test applied to a "." : line.index(char) is the position of
\* the FIRST "." of the (unstripped) line, and the slice is the one character
\* before it (empty when that "." opens the line)
DotDropped(line) ==
    LET p == Find(line, <<".">>)
    IN  p > 1 /\ IsDigit(line[p - 1])

\* lines 56-57: the characters of line.strip() the generator keeps
RECURSIVE KeepChars(_, _)
KeepChars(line, rest) ==
    IF rest = <<>> THEN <<>>
    ELSE LET char == Head(rest)
         IN  (IF IsDigit(char) \/ (char = "." /\ DotDropped(line)) THEN <<>> ELSE <<char>>)
               \o KeepChars(line, Tail(rest))

\* lines 56-57: what out.write receives for one line
CleanLine(line) == KeepChars(line, Strip(line)) \o <<"\n">>

MaxLineLen == 4

LineChars == {"1", ".", "a", " "}

SecondLines == {<<"2", ".", "b">>, <<"b", ".">>}

LineInputs ==
    {<<l>> : l \in SeqsOf(LineChars, 0, MaxLineLen)}
      \cup {<<l, m>> : l \in SeqsOf(LineChars, 2, 2), m \in SecondLines}

InitLines ==
    /\ pc = "lines_call"
    /\ outputs \in LineInputs
    /\ li = 1
    /\ out = <<>>
    /\ text = <<>> /\ max_length = 0 /\ ck = NoLoop /\ chunks = <<>>
    /\ NoRun

\* lines 54-57: one iteration of the for loop
WriteLine ==
    /\ pc = "lines_call"
    /\ li <= Len(outputs)
    /\ out' = out \o CleanLine(outputs[li])
    /\ li' = li + 1
    /\ UNCHANGED <<pc, outputs>>
    /\ UNCHANGED <<chunkVars, envVars, runVars>>

\* line 54: the loop is exhausted and write_lines returns
WriteLinesReturn ==
    /\ pc = "lines_call"
    /\ li > Len(outputs)
    /\ pc' = "lines_done"
    /\ UNCHANGED <<lineVars, envVars, runVars>>
    /\ UNCHANGED <<chunkVars, envVars, runVars>>

NextLines == WriteLine \/ WriteLinesReturn

SpecLines == InitLines /\ [][NextLines]_vars

(***************************************************************************)
(* Claims about chunk_text (checked under SpecChunk)                       *)
(***************************************************************************)
\* the text with its whitespace removed
NoSpace(s) == SelectSeq(s, LAMBDA c : ~IsSpace(c))

\* sentences number i..n of the document, each followed by ". "
TailFrom(sentences, i) ==
    Concat([j \in 1..(Len(sentences) - i + 1) |-> sentences[i + j - 1] \o DotSpace])

\* C4: every returned chunk has length <= max_length, except a chunk that is
\* one single sentence, alone, whose own length exceeds max_length.
C4_ChunkLengthBound ==
    pc = "chunk_done" =>
        \A k \in 1..Len(chunks) :
            \/ Len(chunks[k]) <= max_length
            \/ \E j \in 1..Len(Sentences(text)) :
                  /\ Len(Sentences(text)[j]) > max_length
                  /\ chunks[k] = Strip(Sentences(text)[j] \o DotSpace)

\* C5: for a text longer than max_length the chunks, read in order, hold every
\* sentence of the text exactly once and in the original order (whitespace aside).
C5_ChunksPartitionSentences ==
    (pc = "chunk_done" /\ Len(text) > max_length) =>
        NoSpace(Concat(chunks)) = NoSpace(TailFrom(Sentences(text), 1))

\* C10: when the next sentence overflows a non-empty running chunk and the tail
\* (that sentence and all after it, each followed by ". ") is shorter than 20%
\* of max_length, the tail is appended to the running chunk, which becomes the
\* last chunk, and the loop stops.
C10_TailMerge ==
    [][(/\ pc = "chunk_loop"
        /\ ~LoopOver(ck.sentences, ck)
        /\ ck.current_chunk # <<>>
        /\ ~Fits(ck.current_chunk, ck.sentences[ck.i], max_length)
        /\ 5 * Len(TailFrom(ck.sentences, ck.i)) < max_length)
       => (/\ ck'.broke
           /\ ck'.chunks = Append(ck.chunks,
                                  Strip(ck.current_chunk \o TailFrom(ck.sentences, ck.i)))
           /\ ck'.current_chunk = <<>>)]_vars
(***************************************************************************)
(* Claims about main and process_files (checked under Spec)                *)
(***************************************************************************)
\* the run loop of process_files has been entered
Entered == pc \notin {"main", "start_counter"} /\ failure \notin {"config", "counter_value"}

Ended == pc \in {"returned", "raised"}

InLoop == pc \in {"next_file", "next_chunk", "normalize", "trim", "merge", "parse",
                  "collected", "emit"}

\* the directory of a.md, a.txt (one chunk) and b.txt (two chunks)
ThreeChunks == source_dir.entries = {SourceFile(1), SourceFile(2), [name |-> NameN, text |-> ShortText]}

\* C1: the ids that name the records of a run are c, c+1, ..., c+n-1 in the
\* order of emission, c being the counter the run starts at, whatever chunks
\* were skipped in between; the next id is c+n.
C1_ConsecutiveIds ==
    Entered =>
        /\ \A j \in 1..Len(emitted) :
              /\ emitted[j].id = run_start + j - 1
              /\ StartsWith(emitted[j].name, Pad3(run_start + j - 1) \o <<"_">>)
        /\ global_counter = run_start + Len(emitted)

\* a run that wrote a record for the first chunk and for the third, the second
\* one skipped
C1_Witness ==
    /\ pc = "returned"
    /\ ThreeChunks
    /\ Len(emitted) = 2
    /\ emitted[1].at = <<1, 1>>
    /\ emitted[2].at = <<0, 1>>
    /\ emitted[2].id = emitted[1].id + 1

\* C2: once the loop has been entered, however the run ends, the counter file
\* has been written exactly once, at teardown, with the starting counter plus
\* the number of records written and counted.
C2_CounterPersistedOnce ==
    /\ (Entered /\ Ended) =>
          /\ counter_writes = 1
          /\ counter_file = Holding(Digits(run_start + Len(emitted)))
    /\ ~Ended => counter_writes = 0

\* a run aborted by a failed write, after one record, the file of the failed
\* write left behind
C2_Witness ==
    /\ pc = "raised"
    /\ failure = "write"
    /\ Len(emitted) = 1
    /\ Cardinality(out_dir) = 2
    /\ counter_writes = 1

\* the recovery of the current reply has failed: nothing is left of the reply,
\* it does not parse, or it holds no object
RecoveryFailed ==
    \/ pc = "parse" /\ (content = <<>> \/ ~Loads(content).ok)
    \/ pc = "collected" /\ normalized_outputs = <<>>

\* a recovery failure writes no file, leaves the counter alone, raises nothing
\* and passes to the next chunk of the document
RecoveryIsLocal ==
    RecoveryFailed =>
        /\ out_dir' = out_dir
        /\ emitted' = emitted
        /\ global_counter' = global_counter
        /\ counter_file' = counter_file
        /\ failure' = "none"
        /\ pc' = "next_chunk"
        /\ text_chunks' = Tail(text_chunks)
        /\ files' = files

Aborts == InLoop /\ failure = "none" /\ failure' # "none"

\* C3 as stated: a recovery failure is local to its chunk, and only a failure
\* of the generation call (the lookup of the model name included) aborts the
\* remaining work.
C3_OnlyGenerationAborts ==
    [][RecoveryIsLocal /\ (Aborts => failure' \in {"generation", "config_model"})]_vars

\* C3 as amended: a recovery failure is local to its chunk, and in the loop
\* only a failure of the generation call, of reading a source file or of
\* writing an output file aborts the remaining work.
C3_RecoveryFailureIsLocal ==
    [][RecoveryIsLocal
       /\ (Aborts => failure' \in {"generation", "config_model", "read", "write"})]_vars

\* a run that skipped the first two chunks and wrote the record of the third
C3_Witness ==
    /\ pc = "returned"
    /\ ThreeChunks
    /\ Len(emitted) = 1
    /\ emitted[1].at = <<0, 1>>
    /\ emitted[1].id = run_start

\* the number a counter file holds, if it holds one
HoldsNumber(file) ==
    /\ file.exists
    /\ Strip(file.content) # <<>>
    /\ \A j \in 1..Len(Strip(file.content)) : Strip(file.content)[j] \in Digit

\* C6: the run starts at the explicit start_counter when one is given, the
\* counter file not being read; otherwise at the number the counter file holds,
\* and at 1 when the file is absent or holds no number.
C6_StartingCounter ==
    (pc \notin {"main", "start_counter"} /\ failure # "config") =>
        /\ failure # "counter_value"
        /\ start_counter.given => (run_start = start_counter.value /\ counter_reads = 0)
        /\ (~start_counter.given /\ HoldsNumber(counter_file0)) =>
              run_start = IntOf(Strip(counter_file0.content))
        /\ (~start_counter.given /\ ~HoldsNumber(counter_file0)) => run_start = 1
        /\ emitted # <<>> => emitted[1].id = run_start

\* C7: a run that fails for a missing configuration field has neither read nor
\* written the counter file, which holds what it held before.
C7_ConfigErrorLeavesCounter ==
    (pc = "raised" /\ failure \in {"config", "config_model"}) =>
        /\ counter_reads = 0
        /\ counter_writes = 0
        /\ counter_file = counter_file0

(***************************************************************************)
(* Claims about the recovery of a reply (checked under SpecRecover)        *)
(***************************************************************************)
\* C8: a reply that is one well-formed JSON object with a title and a body, or
\* one well-formed array of such objects, with or without commentary free of
\* braces and brackets around it, yields one record per object, in order, with
\* the trimmed title and body, whatever characters the strings hold.
C8_WellFormedReplyRecovered ==
    (pc = "next_chunk" /\ text_chunks = <<>> /\ reply.wf) =>
        /\ Len(emitted) = Len(reply.objs)
        /\ \A j \in 1..Len(emitted) :
              /\ emitted[j].title = reply.objs[j].title
              /\ emitted[j].body = reply.objs[j].body

(***************************************************************************)
(* Claims about write_lines (checked under SpecLines)                      *)
(***************************************************************************)
\* the stripped line without its digits and without every "." that directly
\* follows a digit; every other character kept, in order
RECURSIVE DropNumbering(_, _)
DropNumbering(prev, rest) ==
    IF rest = <<>> THEN <<>>
    ELSE LET char == Head(rest)
         IN  (IF IsDigit(char) \/ (char = "." /\ IsDigit(prev)) THEN <<>> ELSE <<char>>)
               \o DropNumbering(char, Tail(rest))

\* C9: the file holds, for each input line so far and in input order, one line:
\* the stripped input line with exactly its digits and its "." that directly
\* follow a digit removed.
C9_LinesCleaned ==
    pc \in {"lines_call", "lines_done"} =>
        out = Concat([j \in 1..(li - 1) |->
                        DropNumbering(" ", Strip(outputs[j])) \o <<"\n">>])

====
